---- MODULE Spec2Model ----
(***************************************************************************)
(* Model of the study-notes pipeline of src/utils.py:                      *)
(*   format_timestamp, to_snake_case, the schema backfill and the request  *)
(*   flow of run_analysis_and_summarize, process_data_for_template, and    *)
(*   the segmenter called from src/streamlit_app.py.                       *)
(* Python strings are sequences of one-character strings.                  *)
(***************************************************************************)
EXTENDS Integers, Sequences, FiniteSets, TLC

VARIABLES
    ts_seconds,     \* format_timestamp: argument `seconds`
    ts_out,         \* format_timestamp: returned string, NotRun before the call
    key_in,         \* to_snake_case: argument `s`
    key_out,        \* to_snake_case: returned string, NotRun before the call
    json_data,      \* normalizer: the object json.loads returned (ordered members)
    nz_doc,         \* normalizer: the document returned, NotRun before
    nz_again,       \* normalizer: the backfill loop run on its own output
    an_args,        \* analysis request: the arguments of run_analysis_and_summarize
    an_pc,          \* analysis request: position in run_analysis_and_summarize
    an_prompt,      \* analysis request: full_prompt once built
    an_configured,  \* analysis request: genai.configure has been called
    an_calls,       \* analysis request: number of model.generate_content calls
    an_response,    \* analysis request: what generate_content gave back
    an_result,      \* analysis request: the returned tuple, NotRun before
    r_input,        \* render: the document as the caller built it (a value tree)
    r_heap,         \* render: the Python objects, by address
    r_data,         \* render: the reference the caller passes as data
    r_log,          \* render: arguments and outcome of each call so far
    seg_text,       \* segmenter: the raw text given to segment
    seg_out         \* segmenter: the returned segments, NotRun before the call

vars_ts  == <<ts_seconds, ts_out>>
vars_key == <<key_in, key_out>>
vars_nz  == <<json_data, nz_doc, nz_again>>
vars_an  == <<an_args, an_pc, an_prompt, an_configured, an_calls, an_response,
             an_result>>
vars_r   == <<r_input, r_heap, r_data, r_log>>
vars_seg == <<seg_text, seg_out>>
vars == <<ts_seconds, ts_out, key_in, key_out, json_data, nz_doc, nz_again,
          an_args, an_pc, an_prompt, an_configured, an_calls, an_response,
          an_result, r_input, r_heap, r_data, r_log, seg_text, seg_out>>

\* a call's result slot: NotRun before the call, Ret(v) once it returned v
NotRun == <<>>
Ret(v) == <<v>>
Val(r) == r[1]

(***************************************************************************)
(* Bounds                                                                  *)
(***************************************************************************)
MaxSeconds == 3800
MaxKeyLen == 4
MaxMembers == 2
MaxReplyLen == 4
MaxCalls == 2
MaxTextLen == 4

(***************************************************************************)
(* Characters                                                              *)
(***************************************************************************)
UpperSeq == <<"A","B","C","D","E","F","G","H","I","J","K","L","M",
              "N","O","P","Q","R","S","T","U","V","W","X","Y","Z">>
LowerSeq == <<"a","b","c","d","e","f","g","h","i","j","k","l","m",
              "n","o","p","q","r","s","t","u","v","w","x","y","z">>
DigitSeq == <<"0","1","2","3","4","5","6","7","8","9">>

Range(f) == {f[i] : i \in DOMAIN f}
UpperChars == Range(UpperSeq)
LowerChars == Range(LowerSeq)
DigitChars == Range(DigitSeq)

\* str.lower() on one ASCII character
LowerChar(c) ==
    IF c \in UpperChars
    THEN LowerSeq[CHOOSE i \in 1..26 : UpperSeq[i] = c]
    ELSE c

\* str.lower()
StrLower(s) == [i \in 1..Len(s) |-> LowerChar(s[i])]

\* all sequences over alphabet A of length at most n
SeqsUpTo(A, n) == UNION {[1..k -> A] : k \in 0..n}

(***************************************************************************)
(* format_timestamp  (src/utils.py 113-122)                                *)
(***************************************************************************)
DigitChar(d) == DigitSeq[d + 1]

RECURSIVE Decimal(_)
\* str(n) for a non-negative integer
Decimal(n) == IF n < 10 THEN <<DigitChar(n)>>
              ELSE Decimal(n \div 10) \o <<DigitChar(n % 10)>>

\* f"{n:02d}" : decimal, zero-padded to a minimum width of two
Fmt02d(n) == IF n < 10 THEN <<"0", DigitChar(n)>> ELSE Decimal(n)

ts_hours(seconds) == seconds \div 3600

ts_minutes_nomod(seconds) == seconds \div 60
ts_minutes(seconds) == (seconds % 3600) \div 60

ts_secs(seconds) == seconds % 60

format_timestamp(seconds) ==
    IF ts_hours(seconds) > 0
    THEN Fmt02d(ts_hours(seconds)) \o <<":">> \o Fmt02d(ts_minutes(seconds))
         \o <<":">> \o Fmt02d(ts_secs(seconds))
    ELSE Fmt02d(ts_minutes(seconds)) \o <<":">> \o Fmt02d(ts_secs(seconds))

\* durations beyond the dense range: a day, and both sides of 100 hours
LongSeconds == {86399, 86400, 359999, 360000, 363725}
SecondsInputs == (0..MaxSeconds) \cup LongSeconds

TsIdle == ts_seconds = 0 /\ ts_out = NotRun

InitTimestamp ==
    /\ ts_seconds \in SecondsInputs
    /\ ts_out = NotRun

CallFormatTimestamp ==
    /\ ts_out = NotRun
    /\ ts_out' = Ret(format_timestamp(ts_seconds))
    /\ UNCHANGED ts_seconds

(***************************************************************************)
(* Decimal digits read as a number: int() of a numeric string              *)
(***************************************************************************)
DigitVal(c) == CHOOSE d \in 0..9 : DigitSeq[d + 1] = c

IsDigits(s) == \A i \in 1..Len(s) : s[i] \in DigitChars

RECURSIVE DecimalValue(_)
DecimalValue(s) ==
    IF s = <<>> THEN 0
    ELSE DecimalValue(SubSeq(s, 1, Len(s) - 1)) * 10 + DigitVal(s[Len(s)])

(***************************************************************************)
(* to_snake_case  (src/utils.py 224-226)                                   *)
(***************************************************************************)
\* the regex dot without DOTALL: any character except a newline
AnyChar(c) == c # "\n"

RECURSIVE LowerRunEnd(_, _)
\* last index of the maximal run of lowercase letters that starts at i
LowerRunEnd(s, i) ==
    IF i + 1 <= Len(s) /\ s[i + 1] \in LowerChars
    THEN LowerRunEnd(s, i + 1) ELSE i

\* '(.)([A-Z][a-z]+)' matches with group 1 at index i
Pass1Match(s, i) ==
    /\ i + 2 <= Len(s)
    /\ AnyChar(s[i])
    /\ s[i + 1] \in UpperChars
    /\ s[i + 2] \in LowerChars

RECURSIVE snake_pass1_from(_, _)
\* re.sub('(.)([A-Z][a-z]+)', r'\1_\2', s): leftmost non-overlapping matches
snake_pass1_from(s, i) ==
    IF i > Len(s) THEN <<>>
    ELSE IF Pass1Match(s, i)
         THEN LET j == LowerRunEnd(s, i + 2)
              IN <<s[i], "_">> \o SubSeq(s, i + 1, j) \o snake_pass1_from(s, j + 1)
         ELSE <<s[i]>> \o snake_pass1_from(s, i + 1)

snake_pass1(s) == snake_pass1_from(s, 1)

\* '([a-z0-9])([A-Z])' matches at index i
Pass2Match(s, i) ==
    /\ i + 1 <= Len(s)
    /\ s[i] \in LowerChars \cup DigitChars
    /\ s[i + 1] \in UpperChars

RECURSIVE snake_pass2_from(_, _)
\* re.sub('([a-z0-9])([A-Z])', r'\1_\2', s1)
snake_pass2_from(s, i) ==
    IF i > Len(s) THEN <<>>
    ELSE IF Pass2Match(s, i)
         THEN <<s[i], "_", s[i + 1]>> \o snake_pass2_from(s, i + 2)
         ELSE <<s[i]>> \o snake_pass2_from(s, i + 1)

snake_pass2_skipped(s) == s
snake_pass2(s) == snake_pass2_from(s, 1)

to_snake_case(s) == StrLower(snake_pass2(snake_pass1(s)))

K_topicBreakdown == <<"t","o","p","i","c","B","r","e","a","k","d","o","w","n">>
K_topic_breakdown == <<"t","o","p","i","c","_","b","r","e","a","k","d","o","w","n">>
K_KeyVocabulary == <<"K","e","y","V","o","c","a","b","u","l","a","r","y">>
K_key_vocabulary == <<"k","e","y","_","v","o","c","a","b","u","l","a","r","y">>
K_main_subject == <<"m","a","i","n","_","s","u","b","j","e","c","t">>
K_extraKey == <<"e","x","t","r","a","K","e","y">>
K_extra_key == <<"e","x","t","r","a","_","k","e","y">>

KeyAlphabet == {"a", "b", "A", "B", "1", "_"}
NamedKeys == {K_topicBreakdown, K_topic_breakdown, K_KeyVocabulary,
              K_key_vocabulary, K_main_subject, K_extraKey, K_extra_key}
KeyInputs == SeqsUpTo(KeyAlphabet, MaxKeyLen) \cup NamedKeys

KeyIdle == key_in = <<>> /\ key_out = NotRun

InitKeys ==
    /\ key_in \in KeyInputs
    /\ key_out = NotRun

CallToSnakeCase ==
    /\ key_out = NotRun
    /\ key_out' = Ret(to_snake_case(key_in))
    /\ UNCHANGED key_in

(***************************************************************************)
(* JSON values and Python dicts                                            *)
(* A dict is its sequence of <<key, value>> members in insertion order.    *)
(***************************************************************************)
JNull == [t |-> "null"]
JBool(b) == [t |-> "bool", b |-> b]
JNum(n) == [t |-> "num", n |-> n]
JStr(s) == [t |-> "str", s |-> s]
JList(e) == [t |-> "list", e |-> e]
JObj(m) == [t |-> "dict", m |-> m]

\* bool(v)
Truthy(v) ==
    CASE v.t = "null" -> FALSE
      [] v.t = "bool" -> v.b
      [] v.t = "num" -> v.n # 0
      [] v.t = "str" -> v.s # <<>>
      [] v.t = "list" -> v.e # <<>>
      [] v.t = "dict" -> v.m # <<>>

\* key in d
HasKey(d, k) == \E i \in 1..Len(d) : d[i][1] = k

\* d[k]
DictGet(d, k) == d[CHOOSE i \in 1..Len(d) : d[i][1] = k][2]

\* d[k] = v : an existing key keeps its position, a new key goes last
DictSet(d, k, v) ==
    IF HasKey(d, k)
    THEN [i \in 1..Len(d) |-> IF d[i][1] = k THEN <<k, v>> ELSE d[i]]
    ELSE Append(d, <<k, v>>)

(***************************************************************************)
(* Response normalizer  (src/utils.py 44-49, 229-236)                      *)
(***************************************************************************)
K_formulas_and_principles == <<"f","o","r","m","u","l","a","s","_","a","n","d","_","p","r","i","n","c","i","p","l","e","s">>
K_teacher_insights == <<"t","e","a","c","h","e","r","_","i","n","s","i","g","h","t","s">>
K_exam_focus_points == <<"e","x","a","m","_","f","o","c","u","s","_","p","o","i","n","t","s">>
K_common_mistakes_explained == <<"c","o","m","m","o","n","_","m","i","s","t","a","k","e","s","_","e","x","p","l","a","i","n","e","d">>
K_key_points == <<"k","e","y","_","p","o","i","n","t","s">>
K_short_tricks == <<"s","h","o","r","t","_","t","r","i","c","k","s">>
K_must_remembers == <<"m","u","s","t","_","r","e","m","e","m","b","e","r","s">>
K_time == <<"t","i","m","e">>

EXPECTED_KEYS ==
    <<K_main_subject, K_topic_breakdown, K_key_vocabulary,
      K_formulas_and_principles, K_teacher_insights,
      K_exam_focus_points, K_common_mistakes_explained,
      K_key_points, K_short_tricks, K_must_remembers>>

RECURSIVE canonicalize_from(_, _, _)
\* {to_snake_case(k): v for k, v in json_data.items()}
canonicalize_from(d, i, acc) ==
    IF i > Len(d) THEN acc
    ELSE canonicalize_from(d, i + 1, DictSet(acc, to_snake_case(d[i][1]), d[i][2]))

canonicalize_keys(d) == canonicalize_from(d, 1, <<>>)

\* "" if key == "main_subject" else []
default_value(key) == IF key = K_main_subject THEN JStr(<<>>) ELSE JList(<<>>)

needs_coercion_any_shape(key, v) == key # K_main_subject
\* key != "main_subject" and not isinstance(json_data[key], list)
needs_coercion(key, v) == key # K_main_subject /\ v.t # "list"

coerce_always_wrap(v) == JList(<<v>>)
\* [json_data[key]] if json_data[key] else []
coerce(v) == IF Truthy(v) THEN JList(<<v>>) ELSE JList(<<>>)

\* one iteration of the loop over EXPECTED_KEYS
backfill_key(d, key) ==
    IF ~HasKey(d, key) THEN DictSet(d, key, default_value(key))
    ELSE IF needs_coercion(key, DictGet(d, key))
         THEN DictSet(d, key, coerce(DictGet(d, key)))
         ELSE d

RECURSIVE backfill_from(_, _)
backfill_from(d, i) ==
    IF i > Len(EXPECTED_KEYS) THEN d
    ELSE backfill_from(backfill_key(d, EXPECTED_KEYS[i]), i + 1)

\* for key in EXPECTED_KEYS: ...
backfill(d) == backfill_from(d, 1)

\* lines 229-236: the document returned for the decoded object d
normalize(d) == backfill(canonicalize_keys(d))

\* reply keys: camelCase and PascalCase variants, canonical forms, and
\* keys outside the schema
RawKeys == {K_topicBreakdown, K_topic_breakdown,
            K_main_subject, K_extraKey, K_extra_key}

JsonValues ==
    {JNull, JBool(TRUE), JNum(0), JNum(7),
     JStr(<<>>), JStr(<<"s">>),
     JList(<<>>), JList(<<JStr(<<"s">>)>>),
     JObj(<<>>), JObj(<<<<K_time, JNum(7)>>>>)}

DistinctKeys(d) ==
    \A i, j \in 1..Len(d) : d[i][1] = d[j][1] => i = j

\* what json.loads can return for a span that starts with { and ends with }
ParsedObjects ==
    {d \in SeqsUpTo(RawKeys \X JsonValues, MaxMembers) : DistinctKeys(d)}

NzIdle == json_data = <<>> /\ nz_doc = NotRun /\ nz_again = NotRun

InitNormalize ==
    /\ json_data \in ParsedObjects
    /\ nz_doc = NotRun
    /\ nz_again = NotRun

\* lines 229-236 on the decoded object
Normalize ==
    /\ nz_doc = NotRun
    /\ nz_doc' = Ret(normalize(json_data))
    /\ UNCHANGED <<json_data, nz_again>>

\* the backfill loop (lines 230-234) applied to the document it produced
BackfillAgain ==
    /\ nz_doc # NotRun
    /\ nz_again = NotRun
    /\ nz_again' = Ret(backfill(Val(nz_doc)))
    /\ UNCHANGED <<json_data, nz_doc>>


(***************************************************************************)
(* extract_clean_json  (src/utils.py 100-111)                              *)
(* A reply is a sequence of lexical pieces: the brace characters, a prose  *)
(* character, the three-backtick fence, the word json, a whitespace        *)
(* character and one complete object member.                               *)
(***************************************************************************)
T_OPEN == "{"
T_CLOSE == "}"
T_PROSE == "x"
\* the three-backtick code fence marker
T_FENCE == "<fence>"
T_JSON == "json"
T_WS == "\n"
T_MEMBER == "\"topicBreakdown\": 7"

ReplyTokens == {T_OPEN, T_CLOSE, T_PROSE, T_FENCE, T_JSON, T_WS, T_MEMBER}

RECURSIVE WsSkip(_, _)
\* the first index from i on that holds no whitespace (Len(s) + 1 if none)
WsSkip(s, i) ==
    IF i <= Len(s) /\ s[i] = T_WS THEN WsSkip(s, i + 1) ELSE i

RECURSIVE strip_fences_from(_, _)
\* re.sub(r'<fence>json\s*|\s*<fence>', '', response_text)
strip_fences_from(s, i) ==
    IF i > Len(s) THEN <<>>
    ELSE IF s[i] = T_FENCE /\ i + 1 <= Len(s) /\ s[i + 1] = T_JSON
         THEN strip_fences_from(s, WsSkip(s, i + 2))
         ELSE LET j == WsSkip(s, i)
              IN IF j <= Len(s) /\ s[j] = T_FENCE
                 THEN strip_fences_from(s, j + 1)
                 ELSE <<s[i]>> \o strip_fences_from(s, i + 1)

strip_fences(s) == strip_fences_from(s, 1)

MinOf(S) == CHOOSE x \in S : \A y \in S : x <= y
MaxOf(S) == CHOOSE x \in S : \A y \in S : y <= x

\* re.search(r'\{.*\}', cleaned, re.DOTALL): the span from the first { to the
\* last }, NotRun when there is none
find_span(cleaned) ==
    LET opens == {i \in 1..Len(cleaned) : cleaned[i] = T_OPEN}
        closes == {i \in 1..Len(cleaned) : cleaned[i] = T_CLOSE}
    IN IF opens # {} /\ closes # {} /\ MinOf(opens) < MaxOf(closes)
       THEN Ret(SubSeq(cleaned, MinOf(opens), MaxOf(closes)))
       ELSE NotRun

\* the span without its outer braces and without whitespace
span_body(span) == SelectSeq(SubSeq(span, 2, Len(span) - 1), LAMBDA c : c # T_WS)

\* json.loads(json_str) succeeds
json_decodes(span) == span_body(span) \in {<<>>, <<T_MEMBER>>}

\* json.loads(json_str)
json_loads(span) ==
    IF span_body(span) = <<>> THEN <<>> ELSE <<<<K_topicBreakdown, JNum(7)>>>>

\* extract_clean_json: Ret(json_str), or NotRun for None
extract_clean_json(response_text) ==
    LET match == find_span(strip_fences(response_text))
    IN IF match # NotRun /\ json_decodes(Val(match)) THEN match ELSE NotRun

(***************************************************************************)
(* Prompt assembly  (src/utils.py 150-202)                                 *)
(* The prompt is the sequence of its text pieces.                          *)
(***************************************************************************)
P_BASE == "You are an expert academic content analyzer. Extract structured study notes from video transcripts."
P_LATEX == " **Use LaTeX formatting for all complex mathematical and chemical notation.**"
P_PLAIN == " **Use plain text only. AVOID using any LaTeX commands unless absolutely necessary.**"
P_MATHS == "For all mathematics, use standard LaTeX syntax (e.g., $$\frac{a}{b}$$ or $\\sqrt{x^2}$). Enclose all display equations in double dollar signs ($$...). "
P_CHEM == "For all chemistry, use the mhchem LaTeX command (e.g., $\\ce{H2O}$ or $\\ce{A + B -> C}$). "
P_HL == "4. **Highlighting:** Wrap 2-4 critical words in <hl>text</hl> tags."
P_NOHL == "4. **NO special tags:** Use plain text only."
P_OUTPUT == "\n\nOUTPUT: Valid JSON object with these exact keys (use snake_case):\n{ \"main_subject\": \"...\", \"topic_breakdown\": [...], ... } \n\nRULES:\n1. Use EXACT 'time' values from input (in seconds)\n2. "
P_RULES == "\n3. Keep content concise and academic\n4. Return ONLY valid JSON (no markdown, no comments)\n5. Fill ALL requested sections with available content\n6. Target total length: ~"
P_WORDS == " words across all sections\n7. Extract ONLY these categories: "
P_SPECIAL == "\n\n**SPECIAL FORMATTING RULES:**\n"
P_USER == "\n\nUSER PREFERENCES: "
P_TRANSCRIPT == "\n\n\nTRANSCRIPT DATA:\n"

base_instruction_maths_only(is_maths_on, is_chemistry_on) ==
    IF is_maths_on THEN <<P_BASE, P_LATEX>> ELSE <<P_BASE, P_PLAIN>>
\* lines 153-164
base_instruction(is_maths_on, is_chemistry_on) ==
    IF is_maths_on \/ is_chemistry_on THEN <<P_BASE, P_LATEX>> ELSE <<P_BASE, P_PLAIN>>

\* lines 156, 166-167
maths_instruction(is_maths_on) == IF is_maths_on THEN <<P_MATHS>> ELSE <<>>

\* lines 157, 169-170
chem_instruction(is_chemistry_on) == IF is_chemistry_on THEN <<P_CHEM>> ELSE <<>>

\* lines 173-177
highlighting_instruction(is_easy_read) == IF is_easy_read THEN <<P_HL>> ELSE <<P_NOHL>>

\* lines 150-202: full_prompt for the arguments a
build_prompt(a) ==
    <<"\n">> \o base_instruction(a.is_maths_on, a.is_chemistry_on)
    \o <<P_OUTPUT>> \o highlighting_instruction(a.is_easy_read)
    \o <<P_RULES>> \o a.max_words \o <<P_WORDS>> \o a.sections_str
    \o <<P_SPECIAL>> \o maths_instruction(a.is_maths_on)
    \o chem_instruction(a.is_chemistry_on)
    \o <<P_USER>> \o a.user_prompt \o <<"\n", P_TRANSCRIPT>> \o a.transcript_json

(***************************************************************************)
(* run_analysis_and_summarize, request flow  (src/utils.py 205-241)        *)
(***************************************************************************)
None == <<>>

\* the tuple returned: (document or None, error message or None, full_prompt)
Returned(doc, err, prompt) ==
    [kind |-> "return", doc |-> doc, err |-> err, prompt |-> prompt]

\* an exception leaving the function
Raised(e) == [kind |-> "raise", doc |-> None, err |-> Ret(e), prompt |-> None]

credential_missing_only_none(api_key) == api_key = JNull
\* not api_key
credential_missing(api_key) == ~Truthy(api_key)

on_exception_propagate(e, prompt) == Raised(e)
\* except Exception as e: return None, f"API Error: {e}", full_prompt
on_exception(e, prompt) == Returned(None, Ret("API Error: " \o e), prompt)

\* lines 215-236 on the text extract_gemini_text returned (None or a string)
handle_reply(response_text, prompt) ==
    IF response_text = None \/ Val(response_text) = <<>>
    THEN Returned(None, Ret("Empty API response"), prompt)
    ELSE LET json_str == extract_clean_json(Val(response_text))
         IN IF json_str = NotRun
            THEN Returned(None, Ret("No valid JSON found in response"), prompt)
            ELSE Returned(Ret(normalize(json_loads(Val(json_str)))), None, prompt)

ApiKeys == {JNull, JStr(<<>>), JStr(<<"k">>)}

\* a fenced reply and a reply with two objects, longer than MaxReplyLen
LongReplies ==
    {<<T_PROSE, T_WS, T_FENCE, T_JSON, T_WS, T_OPEN, T_MEMBER, T_CLOSE, T_WS, T_FENCE>>,
     <<T_OPEN, T_MEMBER, T_CLOSE, T_PROSE, T_OPEN, T_CLOSE>>}

ReplyTexts == SeqsUpTo(ReplyTokens, MaxReplyLen) \cup LongReplies

\* the arguments of one request, with every combination of the three mode
\* flags
AnalysisArgs ==
    {[api_key |-> k, is_easy_read |-> e, is_maths_on |-> mm,
      is_chemistry_on |-> c, max_words |-> <<"500">>,
      sections_str |-> <<"key_points">>, user_prompt |-> <<"focus">>,
      transcript_json |-> <<"[]">>] :
        k \in ApiKeys, e \in BOOLEAN, mm \in BOOLEAN, c \in BOOLEAN}

AnIdle ==
    /\ an_args = [api_key |-> JNull, is_easy_read |-> FALSE, is_maths_on |-> TRUE,
                  is_chemistry_on |-> TRUE, max_words |-> <<"500">>,
                  sections_str |-> <<"key_points">>, user_prompt |-> <<"focus">>,
                  transcript_json |-> <<"[]">>]
    /\ an_pc = "idle"
    /\ an_prompt = None
    /\ an_configured = FALSE
    /\ an_calls = 0
    /\ an_response = [kind |-> "none", text |-> None]
    /\ an_result = NotRun

InitAnalysis ==
    /\ an_args \in AnalysisArgs
    /\ an_pc = "start"
    /\ an_prompt = None
    /\ an_configured = FALSE
    /\ an_calls = 0
    /\ an_response = [kind |-> "none", text |-> None]
    /\ an_result = NotRun

\* lines 150-206: build the prompt, then the credential check
BuildAndCheckKey ==
    /\ an_pc = "start"
    /\ an_prompt' = Ret(build_prompt(an_args))
    /\ IF credential_missing(an_args.api_key)
       THEN /\ an_result' = Ret(Returned(None, Ret("API Key Missing"),
                                         build_prompt(an_args)))
            /\ an_pc' = "done"
       ELSE /\ an_result' = an_result
            /\ an_pc' = "try"
    /\ UNCHANGED <<an_args, an_configured, an_calls, an_response>>

\* lines 209-210: genai.configure and GenerativeModel; either may raise
ConfigureModel ==
    /\ an_pc = "try"
    /\ an_configured' = TRUE
    /\ \/ an_pc' = "configured" /\ an_result' = an_result
       \/ /\ an_pc' = "done"
          /\ an_result' = Ret(on_exception("configure failed", Val(an_prompt)))
    /\ UNCHANGED <<an_args, an_prompt, an_calls, an_response>>

\* line 212: the one model.generate_content call; it raises (transport or
\* provider error) or gives a response whose text is None, unreadable, or a
\* string
GenerateContent ==
    /\ an_pc = "configured"
    /\ an_calls' = an_calls + 1
    /\ \/ /\ an_response' = [kind |-> "raise", text |-> None]
          /\ an_pc' = "done"
          /\ an_result' = Ret(on_exception("transport error", Val(an_prompt)))
       \/ /\ an_response' \in
                {[kind |-> "text_raises", text |-> None], [kind |-> "text", text |-> None]}
                \cup {[kind |-> "text", text |-> Ret(t)] : t \in ReplyTexts}
          /\ an_pc' = "replied"
          /\ an_result' = an_result
    /\ UNCHANGED <<an_args, an_prompt, an_configured>>

\* lines 213-241: extract the text, recover and normalize the object
HandleReply ==
    /\ an_pc = "replied"
    /\ an_pc' = "done"
    /\ an_result' =
         Ret(IF an_response.kind = "text_raises"
             THEN on_exception("response.text failed", Val(an_prompt))
             ELSE handle_reply(an_response.text, Val(an_prompt)))
    /\ UNCHANGED <<an_args, an_prompt, an_configured, an_calls, an_response>>


(***************************************************************************)
(* Python objects  (dict and list are mutable and shared by reference)     *)
(* The heap is the sequence of the objects allocated so far; an object's   *)
(* address is its index. A dict or list holds scalars and references.      *)
(***************************************************************************)
Ref(a) == [t |-> "ref", a |-> a]

IsDictRef(h, v) == v.t = "ref" /\ h[v.a].t = "dict"
IsListRef(h, v) == v.t = "ref" /\ h[v.a].t = "list"

\* bool(v) for a scalar or a referenced container
TruthyH(h, v) == IF v.t = "ref" THEN Truthy(h[v.a]) ELSE Truthy(v)

\* h[a][k] = v on the dict at address a
HeapSetItem(h, a, k, v) == [h EXCEPT ![a] = JObj(DictSet(h[a].m, k, v))]

\* F(x) with x evaluated once, before F uses it
With(x, F(_)) == CHOOSE y \in {F(v) : v \in {x}} : TRUE

RECURSIVE Load(_, _), LoadSeq(_, _, _, _)
\* the object graph of a value tree: children first, then the container
Load(h, v) ==
    CASE v.t = "list" ->
           With(LoadSeq(h, v.e, 1, <<>>), LAMBDA r :
                [h |-> Append(r.h, JList(r.vs)), v |-> Ref(Len(r.h) + 1)])
      [] v.t = "dict" ->
           With(LoadSeq(h, [i \in 1..Len(v.m) |-> v.m[i][2]], 1, <<>>), LAMBDA r :
                [h |-> Append(r.h, JObj([i \in 1..Len(v.m) |-> <<v.m[i][1], r.vs[i]>>])),
                 v |-> Ref(Len(r.h) + 1)])
      [] OTHER -> [h |-> h, v |-> v]

LoadSeq(h, vs, i, acc) ==
    IF i > Len(vs) THEN [h |-> h, vs |-> acc]
    ELSE With(Load(h, vs[i]), LAMBDA r :
              With(Append(acc, r.v), LAMBDA acc2 : LoadSeq(r.h, vs, i + 1, acc2)))

RECURSIVE Deep(_, _)
\* the value tree reachable from v
Deep(h, v) ==
    IF v.t # "ref" THEN v
    ELSE IF h[v.a].t = "list"
         THEN JList([i \in 1..Len(h[v.a].e) |-> Deep(h, h[v.a].e[i])])
         ELSE JObj([i \in 1..Len(h[v.a].m) |->
                      <<h[v.a].m[i][1], Deep(h, h[v.a].m[i][2])>>])

(***************************************************************************)
(* process_data_for_template  (src/utils.py 251-306)                       *)
(* A string value is the sequence of its pieces; the marker tags <hl> and  *)
(* </hl> are single pieces (neither can overlap the other or itself).      *)
(***************************************************************************)
K_details == <<"d","e","t","a","i","l","s">>
K_text == <<"t","e","x","t">>
K_timestamp_html == <<"t","i","m","e","s","t","a","m","p","_","h","t","m","l">>

T_HL == "<hl>"
T_HLEND == "</hl>"
T_NL == "\n"

U_WATCH == "https://www.youtube.com/watch?v="
U_T == "&t="
U_S == "s"
A_OPEN == "<a href=\""
A_CLASS == "\" class=\"timestamp-link\">["
A_CLOSE == "]</a>"
H_OPEN == "<span class=\"highlight-text\"><b>"
H_CLOSE == "</b></span>"

\* the outcome of a step: the heap after it, its value, the exception raised
Ok(h, v) == [h |-> h, v |-> v, exc |-> "none"]
Fail(h, e) == [h |-> h, v |-> JNull, exc |-> e]

\* line 254
base_url(video_id) ==
    IF Truthy(video_id) THEN Ret(<<U_WATCH>> \o video_id.s) ELSE None

\* int(timestamp) succeeds: a number, a bool, or a string of digits
CanInt(v) ==
    \/ v.t \in {"num", "bool"}
    \/ v.t = "str" /\ v.s # <<>> /\ IsDigits(v.s)

\* the exception int(timestamp) raises otherwise
IntError(v) == IF v.t = "str" THEN "ValueError" ELSE "TypeError"

\* int(timestamp)
IntOf(v) ==
    CASE v.t = "num" -> v.n
      [] v.t = "bool" -> (IF v.b THEN 1 ELSE 0)
      [] v.t = "str" -> DecimalValue(v.s)

\* lines 267-269: the anchor for a truthy time
timestamp_html(url, timestamp) ==
    <<A_OPEN>> \o url \o <<U_T>> \o Decimal(IntOf(timestamp)) \o <<U_S, A_CLASS>>
    \o format_timestamp(IntOf(timestamp)) \o <<A_CLOSE>>

\* the first </hl> after index i (0 if none)
NextHlEnd(s, i) ==
    LET ends == {j \in (i + 1)..Len(s) : s[j] = T_HLEND}
    IN IF ends = {} THEN 0 ELSE MinOf(ends)

\* the dot of (.*?) matches this piece: anything but a newline
hl_dot_matches(c) == c # T_NL

\* '<hl>(.*?)</hl>' matches from index i: the end index, 0 if no match
HlMatchEnd(s, i) ==
    IF s[i] # T_HL THEN 0
    ELSE LET j == NextHlEnd(s, i)
         IN IF j # 0 /\ \A x \in (i + 1)..(j - 1) : hl_dot_matches(s[x])
            THEN j ELSE 0

\* the replacement for a matched span with inner text x (lines 279-286)
hl_replacement(x, is_easy_read) ==
    IF is_easy_read THEN <<H_OPEN>> \o x \o <<H_CLOSE>> ELSE x

RECURSIVE hl_sub_from(_, _, _)
\* re.sub(r'<hl>(.*?)</hl>', ..., s): leftmost non-overlapping matches
hl_sub_from(s, i, is_easy_read) ==
    IF i > Len(s) THEN <<>>
    ELSE LET j == HlMatchEnd(s, i)
         IN IF j # 0
            THEN hl_replacement(SubSeq(s, i + 1, j - 1), is_easy_read)
                 \o hl_sub_from(s, j + 1, is_easy_read)
            ELSE <<s[i]>> \o hl_sub_from(s, i + 1, is_easy_read)

hl_sub(s, is_easy_read) == hl_sub_from(s, 1, is_easy_read)

\* lines 275-286: rewrite every string-valued field of the dict at address a
highlight_fields(h, a, is_easy_read) ==
    [h EXCEPT ![a] =
        JObj([i \in 1..Len(h[a].m) |->
                IF h[a].m[i][2].t = "str"
                THEN <<h[a].m[i][1], JStr(hl_sub(h[a].m[i][2].s, is_easy_read))>>
                ELSE h[a].m[i]])]

dict_alias(h, a) == [h |-> h, a |-> a]
\* dict.copy(): a new dict with the same members (lines 255, 262)
dict_copy(h, a) == [h |-> Append(h, h[a]), a |-> Len(h) + 1]

\* timestamp and base_url (line 266)
link_wanted(h, timestamp, url) == TruthyH(h, timestamp) /\ url # None

\* lines 264-288 on the copy at address a of heap h
process_copied_item(h, a, url, is_easy_read) ==
    LET timestamp == IF HasKey(h[a].m, K_time) THEN DictGet(h[a].m, K_time) ELSE JNull
    IN IF link_wanted(h, timestamp, url)
       THEN IF timestamp.t = "ref" \/ ~CanInt(timestamp)
            THEN Fail(h, IF timestamp.t = "ref" THEN "TypeError"
                         ELSE IntError(timestamp))
            ELSE With(HeapSetItem(h, a, K_timestamp_html,
                                  JStr(timestamp_html(Val(url), timestamp))),
                      LAMBDA h2 : Ok(highlight_fields(h2, a, is_easy_read), Ref(a)))
       ELSE With(HeapSetItem(h, a, K_timestamp_html, JStr(<<>>)),
                 LAMBDA h2 : Ok(highlight_fields(h2, a, is_easy_read), Ref(a)))

\* lines 257-288
process_item(h, item, url, is_easy_read) ==
    IF ~IsDictRef(h, item) THEN Ok(h, item)
    ELSE With(dict_copy(h, item.a),
              LAMBDA c : process_copied_item(c.h, c.a, url, is_easy_read))

RECURSIVE process_items_from(_, _, _, _, _, _)
\* [process_item(x) for x in items], stopping at the first exception;
\* the value is the sequence of results
process_items_from(h, items, i, acc, url, is_easy_read) ==
    IF i > Len(items) THEN [h |-> h, v |-> acc, exc |-> "none"]
    ELSE With(process_item(h, items[i], url, is_easy_read), LAMBDA r :
              IF r.exc # "none" THEN r
              ELSE With(Append(acc, r.v), LAMBDA acc2 :
                        process_items_from(r.h, items, i + 1, acc2, url, is_easy_read)))

\* s contains the substring sub
Contains(s, sub) ==
    \E i \in 1..(Len(s) - Len(sub) + 1) : SubSeq(s, i, i + Len(sub) - 1) = sub

\* 'details' in new_topic: "yes", "no", or the exception it raises
details_in(h, new_topic) ==
    IF IsDictRef(h, new_topic)
    THEN IF HasKey(h[new_topic.a].m, K_details) THEN "yes" ELSE "no"
    ELSE IF IsListRef(h, new_topic)
    THEN IF \E i \in 1..Len(h[new_topic.a].e) : h[new_topic.a].e[i] = JStr(K_details)
         THEN "yes" ELSE "no"
    ELSE IF new_topic.t = "str"
    THEN IF Contains(new_topic.s, K_details) THEN "yes" ELSE "no"
    ELSE "TypeError"

\* line 299: new_topic['details'] = [process_item(detail) for detail in ...]
\* for the copied topic at address a whose details is the list at address d
process_details(h, a, d, url, is_easy_read) ==
    With(h[d].e, LAMBDA details :
    With(process_items_from(h, details, 1, <<>>, url, is_easy_read), LAMBDA r :
         IF r.exc # "none" THEN r
         ELSE With(Append(r.h, JList(r.v)), LAMBDA h2 :
                   Ok(HeapSetItem(h2, a, K_details, Ref(Len(h2))), Ref(a)))))

\* lines 298-300 on new_topic, the result r of process_item
process_new_topic(r, url, is_easy_read) ==
    LET found == details_in(r.h, r.v)
    IN IF found = "TypeError" THEN Fail(r.h, "TypeError")
       ELSE IF found = "no" THEN r
       ELSE IF ~IsDictRef(r.h, r.v) THEN Fail(r.h, "TypeError")
       ELSE LET details == DictGet(r.h[r.v.a].m, K_details)
            IN IF ~IsListRef(r.h, details) THEN r
               ELSE process_details(r.h, r.v.a, details.a, url, is_easy_read)

\* lines 297-300: one item of the topic_breakdown list
process_topic(h, item, url, is_easy_read) ==
    With(process_item(h, item, url, is_easy_read), LAMBDA r :
         IF r.exc # "none" THEN r ELSE process_new_topic(r, url, is_easy_read))

RECURSIVE process_topics_from(_, _, _, _, _, _)
\* lines 294-300 over the items of topic_breakdown
process_topics_from(h, items, i, acc, url, is_easy_read) ==
    IF i > Len(items) THEN [h |-> h, v |-> acc, exc |-> "none"]
    ELSE With(process_topic(h, items[i], url, is_easy_read), LAMBDA r :
              IF r.exc # "none" THEN r
              ELSE With(Append(acc, r.v), LAMBDA acc2 :
                        process_topics_from(r.h, items, i + 1, acc2, url, is_easy_read)))

\* lines 293-304: the new list for section k whose value is the list at address a
process_section(h, k, a, url, is_easy_read) ==
    With(h[a].e, LAMBDA items :
    With(IF k = K_topic_breakdown
         THEN process_topics_from(h, items, 1, <<>>, url, is_easy_read)
         ELSE process_items_from(h, items, 1, <<>>, url, is_easy_read),
         LAMBDA r : IF r.exc # "none" THEN r
                    ELSE Ok(Append(r.h, JList(r.v)), Ref(Len(r.h) + 1))))

RECURSIVE process_sections_from(_, _, _, _, _)
\* lines 291-304: the loop over processed_data.items(), pd its address
process_sections_from(h, pd, i, url, is_easy_read) ==
    IF i > Len(h[pd].m) THEN Ok(h, Ref(pd))
    ELSE LET k == h[pd].m[i][1]
             v == h[pd].m[i][2]
         IN IF ~IsListRef(h, v)
            THEN process_sections_from(h, pd, i + 1, url, is_easy_read)
            ELSE With(process_section(h, k, v.a, url, is_easy_read), LAMBDA r :
                      IF r.exc # "none" THEN r
                      ELSE With(HeapSetItem(r.h, pd, k, r.v), LAMBDA h2 :
                                process_sections_from(h2, pd, i + 1, url, is_easy_read)))

\* lines 251-306
process_data_for_template(h, data, video_id, is_easy_read) ==
    With(dict_copy(h, data.a), LAMBDA c :
    With(base_url(video_id), LAMBDA url :
         process_sections_from(c.h, c.a, 1, url, is_easy_read)))

\* video_id as get_video_id gives it: None or the id; an empty id is falsy
VideoIds == {JNull, JStr(<<>>), JStr(<<"v","i","d">>)}

\* string fields with and without marked spans: plain, one span, two spans,
\* a span across a line break, an unclosed tag, a tag inside a span
ItemTexts ==
    {<<"a">>,
     <<"T", T_HL, "m", T_HLEND, "k">>,
     <<T_HL, "a", T_HLEND, "x", T_HL, "b", T_HLEND>>,
     <<T_HL, "a", T_NL, "b", T_HLEND>>,
     <<T_HL, "a">>,
     <<T_HL, "a", T_HL, "b", T_HLEND>>}

\* the time field: absent, zero, seconds below and above an hour, a numeric
\* string, a non-numeric string, null
TimeValues ==
    {JNum(0), JNum(7), JNum(3725), JStr(<<"1","2">>), JStr(<<"a">>), JNull}

\* object items: a text field, with or without a time field
DictItems ==
    {JObj(<<<<K_text, JStr(x)>>>>) : x \in ItemTexts}
    \cup {JObj(<<<<K_time, t>>, <<K_text, JStr(x)>>>>) : t \in TimeValues, x \in ItemTexts}

\* items that are not objects: a plain string, a number, a string holding
\* the word details
PlainItems == {JStr(<<"s">>), JNum(7), JStr(K_details)}

\* what a topic_breakdown object may hold under details
DetailsValues ==
    {JList(<<>>), JStr(<<T_HL, "a", T_HLEND>>),
     JList(<<JStr(<<"s">>)>>)}
    \cup {JList(<<d>>) : d \in {JObj(<<<<K_time, t>>, <<K_text, JStr(x)>>>>) :
                                   t \in {JNum(0), JNum(7)},
                                   x \in {<<"T", T_HL, "m", T_HLEND, "k">>,
                                          <<T_HL, "a", T_NL, "b", T_HLEND>>}}}

TopicItems ==
    DictItems \cup PlainItems
    \cup {JObj(<<<<K_time, t>>, <<K_text, JStr(<<"T", T_HL, "m", T_HLEND, "k">>)>>,
                <<K_details, d>>>>) : t \in {JNum(0), JNum(7)}, d \in DetailsValues}

\* documents: a subject, one topic_breakdown item, one key_points item and
\* an object under a key outside the schema
RenderDocs ==
    {JObj(<<<<K_main_subject, JStr(<<T_HL, "s", T_HLEND>>)>>,
            <<K_topic_breakdown, JList(<<x>>)>>,
            <<K_key_points, JList(<<JStr(<<"s">>)>>)>>,
            <<K_extra_key, JObj(<<<<K_text, JStr(<<T_HL, "a", T_HLEND>>)>>>>)>>>>) :
        x \in TopicItems}
    \cup
    {JObj(<<<<K_main_subject, JStr(<<"s">>)>>,
            <<K_topic_breakdown, JList(<<>>)>>,
            <<K_key_points, JList(<<x, JStr(<<"s">>)>>)>>>>) :
        x \in DictItems \cup PlainItems}

RIdle ==
    /\ r_input = JNull
    /\ r_heap = <<>>
    /\ r_data = JNull
    /\ r_log = <<>>

InitRender ==
    /\ r_input \in RenderDocs
    /\ \E g \in {Load(<<>>, r_input)} : r_heap = g.h /\ r_data = g.v
    /\ r_log = <<>>

\* one call process_data_for_template(data, video_id, is_easy_read) on the
\* caller's document; it returns a document or raises
CallProcessData ==
    /\ Len(r_log) < MaxCalls
    /\ \E video_id \in VideoIds, is_easy_read \in BOOLEAN :
         \E r \in {process_data_for_template(r_heap, r_data, video_id, is_easy_read)} :
            /\ r_heap' = r.h
            /\ r_log' = Append(r_log, [video_id |-> video_id,
                                       is_easy_read |-> is_easy_read,
                                       v |-> r.v, exc |-> r.exc])
    /\ UNCHANGED <<r_input, r_data>>

(***************************************************************************)
(* Segmenter: segment_raw_transcript is imported and called by             *)
(* src/streamlit_app.py (lines 6, 167) but defined in no file of src/; the *)
(* definitions below follow section 4.1 of the specification.              *)
(* A text is the sequence of its characters.                               *)
(***************************************************************************)
SentenceEnd == {".", "?", "!", ";"}
Whitespace == {" ", "\n", "\t"}
SentencesPerChunk == 10
MaxChunks == 50

\* position k of s lies in a sentence boundary: a whitespace run that starts
\* right after end-of-sentence punctuation
InBoundary(s, k) ==
    /\ s[k] \in Whitespace
    /\ \E i \in 2..k : /\ s[i - 1] \in SentenceEnd
                       /\ \A m \in i..k : s[m] \in Whitespace

BoundaryPositions(s) == {k \in 1..Len(s) : InBoundary(s, k)}

\* the last position of the fragment that starts at i
FragmentEnd(s, B, i) ==
    CHOOSE j \in i..Len(s) : /\ j = Len(s) \/ (j + 1) \in B
                             /\ \A m \in i..(j - 1) : (m + 1) \notin B

\* the first positions of the fragments between the boundaries, those
\* fragments dropped that hold nothing but whitespace
FragmentStarts(s, B) ==
    {i \in 1..Len(s) :
        /\ i \notin B
        /\ i = 1 \/ (i - 1) \in B
        /\ \E m \in i..FragmentEnd(s, B, i) : s[m] \notin Whitespace}

\* the sentences of s in text order
split_sentences(s) ==
    With(BoundaryPositions(s), LAMBDA B :
    With(FragmentStarts(s, B), LAMBDA S :
    With([i \in 1..Len(s) |-> Cardinality({j \in S : j <= i})], LAMBDA rank :
        [k \in 1..Cardinality(S) |->
            With(CHOOSE i \in S : rank[i] = k, LAMBDA i :
                SubSeq(s, i, FragmentEnd(s, B, i)))])))

clamp(x, lo, hi) == IF x < lo THEN lo ELSE IF x > hi THEN hi ELSE x

target_chunk_count(n) == clamp(n \div SentencesPerChunk, 1, MaxChunks)

chunk_size(n) ==
    With(n \div target_chunk_count(n), LAMBDA q : IF q < 1 THEN 1 ELSE q)

RECURSIVE space_join(_)
space_join(fragments) ==
    IF Len(fragments) = 0 THEN <<>>
    ELSE IF Len(fragments) = 1 THEN fragments[1]
    ELSE fragments[1] \o <<" ">> \o space_join(Tail(fragments))

\* consecutive sentences grouped by size, the last group possibly shorter;
\* each group one segment with time 0
merge_chunks(sentences, size) ==
    With(Len(sentences), LAMBDA n :
        [c \in 1..((n + size - 1) \div size) |->
            [time |-> 0,
             text |-> space_join(SubSeq(sentences, (c - 1) * size + 1,
                                        IF c * size < n THEN c * size ELSE n))]])

segment(raw_text) ==
    With(split_sentences(raw_text), LAMBDA sentences :
        IF Len(sentences) = 0 THEN <<>>
        ELSE merge_chunks(sentences, chunk_size(Len(sentences))))

TextAlphabet == {"a", ".", " "}
\* n sentences "a.", each followed by one space
SentenceText(n) ==
    [i \in 1..(3 * n) |-> IF i % 3 = 1 THEN "a" ELSE IF i % 3 = 2 THEN "." ELSE " "]
LongSentenceCounts == {10, 19, 29, 120, 499, 500, 501, 549}
RawTexts ==
    SeqsUpTo(TextAlphabet, MaxTextLen)
        \cup {SentenceText(n) : n \in LongSentenceCounts}

SegIdle ==
    /\ seg_text = <<>>
    /\ seg_out = NotRun

InitSegment ==
    /\ seg_text \in RawTexts
    /\ seg_out = NotRun

\* one call segment(raw_text)
CallSegment ==
    /\ seg_out = NotRun
    /\ \E r \in {segment(seg_text)} : seg_out' = Ret(r)
    /\ UNCHANGED seg_text

(***************************************************************************)
(* From the normalizer to the render preprocessor                          *)
(* save_to_pdf_weasyprint (src/utils.py 309-321) hands the document that   *)
(* run_analysis_and_summarize returned to process_data_for_template.       *)
(***************************************************************************)
\* process_data_for_template(data, video_id, is_easy_read) with data the
\* document the normalizer returned
PrepareNormalized ==
    /\ nz_doc # NotRun
    /\ r_log = <<>>
    /\ \E video_id \in VideoIds, is_easy_read \in BOOLEAN :
         \E g \in {Load(<<>>, JObj(Val(nz_doc)))} :
            \E r \in {process_data_for_template(g.h, g.v, video_id, is_easy_read)} :
               /\ r_input' = JObj(Val(nz_doc))
               /\ r_data' = g.v
               /\ r_heap' = r.h
               /\ r_log' = <<[video_id |-> video_id,
                              is_easy_read |-> is_easy_read,
                              v |-> r.v, exc |-> r.exc]>>

(***************************************************************************)
(* Specifications                                                          *)
(***************************************************************************)
NextTimestamp == CallFormatTimestamp /\ UNCHANGED <<vars_key, vars_nz, vars_an, vars_r, vars_seg>>
InitSpecTimestamp == InitTimestamp /\ KeyIdle /\ NzIdle /\ AnIdle /\ RIdle /\ SegIdle
SpecTimestamp == InitSpecTimestamp /\ [][NextTimestamp]_vars

NextKeys == CallToSnakeCase /\ UNCHANGED <<vars_ts, vars_nz, vars_an, vars_r, vars_seg>>
InitSpecKeys == InitKeys /\ TsIdle /\ NzIdle /\ AnIdle /\ RIdle /\ SegIdle
SpecKeys == InitSpecKeys /\ [][NextKeys]_vars

NextNormalize ==
    \/ Normalize /\ UNCHANGED <<vars_ts, vars_key, vars_an, vars_r, vars_seg>>
    \/ BackfillAgain /\ UNCHANGED <<vars_ts, vars_key, vars_an, vars_r, vars_seg>>
InitSpecNormalize == InitNormalize /\ TsIdle /\ KeyIdle /\ AnIdle /\ RIdle /\ SegIdle
SpecNormalize == InitSpecNormalize /\ [][NextNormalize]_vars

NextAnalysis ==
    \/ BuildAndCheckKey /\ UNCHANGED <<vars_ts, vars_key, vars_nz, vars_r, vars_seg>>
    \/ ConfigureModel /\ UNCHANGED <<vars_ts, vars_key, vars_nz, vars_r, vars_seg>>
    \/ GenerateContent /\ UNCHANGED <<vars_ts, vars_key, vars_nz, vars_r, vars_seg>>
    \/ HandleReply /\ UNCHANGED <<vars_ts, vars_key, vars_nz, vars_r, vars_seg>>
InitSpecAnalysis == InitAnalysis /\ TsIdle /\ KeyIdle /\ NzIdle /\ RIdle /\ SegIdle
SpecAnalysis == InitSpecAnalysis /\ [][NextAnalysis]_vars

NextRender == CallProcessData /\ UNCHANGED <<vars_ts, vars_key, vars_nz, vars_an, vars_seg>>
InitSpecRender == InitRender /\ TsIdle /\ KeyIdle /\ NzIdle /\ AnIdle /\ SegIdle
SpecRender == InitSpecRender /\ [][NextRender]_vars

NextSegment == CallSegment /\ UNCHANGED <<vars_ts, vars_key, vars_nz, vars_an, vars_r>>
InitSpecSegment == InitSegment /\ TsIdle /\ KeyIdle /\ NzIdle /\ AnIdle /\ RIdle
SpecSegment == InitSpecSegment /\ [][NextSegment]_vars

NextPipeline ==
    \/ Normalize /\ UNCHANGED <<vars_ts, vars_key, vars_an, vars_r, vars_seg>>
    \/ PrepareNormalized /\ UNCHANGED <<vars_ts, vars_key, vars_nz, vars_an, vars_seg>>
InitSpecPipeline == InitNormalize /\ TsIdle /\ KeyIdle /\ AnIdle /\ RIdle /\ SegIdle
SpecPipeline == InitSpecPipeline /\ [][NextPipeline]_vars

\* C8: for every non-negative number of seconds s, format_timestamp gives
\* "MM:SS" when s < 3600 and "HH:MM:SS" when s >= 3600; every field is decimal,
\* zero-padded to two digits (the hours field grows only when hours >= 100),
\* MM = (s mod 3600) div 60 < 60 and SS = s mod 60 < 60, and the fields read
\* back to s; 45 -> "00:45", 125 -> "02:05", 3725 -> "01:02:05".
C8_FormatTimestamp ==
    ts_out # NotRun =>
        LET s == ts_seconds
            out == Val(ts_out)
            n == Len(out)
        IN /\ n >= 5
           /\ out[n - 2] = ":"
           /\ LET mm == SubSeq(out, n - 4, n - 3)
                  ss == SubSeq(out, n - 1, n)
              IN /\ IsDigits(mm) /\ IsDigits(ss)
                 /\ DecimalValue(mm) = (s % 3600) \div 60
                 /\ DecimalValue(mm) < 60
                 /\ DecimalValue(ss) = s % 60
                 /\ DecimalValue(ss) < 60
                 /\ s < 3600 => n = 5 /\ DecimalValue(mm) * 60 + DecimalValue(ss) = s
                 /\ s >= 3600 =>
                      /\ n >= 8
                      /\ out[n - 5] = ":"
                      /\ LET hh == SubSeq(out, 1, n - 6)
                         IN /\ IsDigits(hh)
                            /\ Len(hh) > 2 => hh[1] # "0"
                            /\ DecimalValue(hh) * 3600 + DecimalValue(mm) * 60
                                 + DecimalValue(ss) = s
                      /\ s < 360000 => n = 8
           /\ s = 45 => out = <<"0","0",":","4","5">>
           /\ s = 125 => out = <<"0","2",":","0","5">>
           /\ s = 3725 => out = <<"0","1",":","0","2",":","0","5">>

\* C8 witness: 3725 seconds has been formatted as "01:02:05"
C8_Witness ==
    ts_seconds = 3725 /\ ts_out = Ret(<<"0","1",":","0","2",":","0","5">>)

(***************************************************************************)
(* The two-rule tokenizer the canonicalization is claimed to be            *)
(***************************************************************************)
IsSnakeForm(s) ==
    \A i \in 1..Len(s) : s[i] \in LowerChars \cup DigitChars \cup {"_"}

\* a boundary goes before index p: s[p] is an uppercase letter followed by a
\* lowercase letter and preceded by any character, or s[p] is an uppercase
\* letter right after a lowercase letter or digit
Boundary(s, p) ==
    /\ p >= 2
    /\ s[p] \in UpperChars
    /\ \/ p + 1 <= Len(s) /\ s[p + 1] \in LowerChars /\ AnyChar(s[p - 1])
       \/ s[p - 1] \in LowerChars \cup DigitChars

RECURSIVE TwoRuleFrom(_, _)
TwoRuleFrom(s, p) ==
    IF p > Len(s) THEN <<>>
    ELSE (IF Boundary(s, p) THEN <<"_">> ELSE <<>>)
         \o <<LowerChar(s[p])>> \o TwoRuleFrom(s, p + 1)

\* C7: to_snake_case maps "topicBreakdown" to "topic_breakdown" and
\* "KeyVocabulary" to "key_vocabulary", leaves a key that is already
\* lowercase-with-underscores unchanged, is the two-rule rewrite followed by
\* lowercasing, and applying it to its own result changes nothing.
C7_ToSnakeCase ==
    key_out # NotRun =>
        LET out == Val(key_out)
        IN /\ key_in = K_topicBreakdown => out = K_topic_breakdown
           /\ key_in = K_KeyVocabulary => out = K_key_vocabulary
           /\ IsSnakeForm(key_in) => out = key_in
           /\ out = TwoRuleFrom(key_in, 1)
           /\ to_snake_case(out) = out

\* C7 witness: "topicBreakdown" has been canonicalized to "topic_breakdown"
C7_Witness == key_in = K_topicBreakdown /\ key_out = Ret(K_topic_breakdown)

(***************************************************************************)
(* The normalized document                                                 *)
(***************************************************************************)
SectionKeys == {EXPECTED_KEYS[i] : i \in 2..Len(EXPECTED_KEYS)}

\* the canonical form of every key of the reply, in member order
CanonKeys(d) == [i \in 1..Len(d) |-> to_snake_case(d[i][1])]

\* the members of the reply whose key canonicalizes to key
RepliedIndex(canon, key) == {i \in 1..Len(canon) : canon[i] = key}

\* the value the reply gives for a canonical key: that of the last such member
Replied(d, canon, key) ==
    d[CHOOSE i \in RepliedIndex(canon, key) :
        \A j \in RepliedIndex(canon, key) : j <= i][2]

\* C1: the returned document has all ten recognized keys and every section
\* value is a list: an absent key becomes [] ("" for main_subject), a list
\* stays as replied, a truthy non-list value v becomes [v], a falsy one [].
C1_NormalizedShape ==
    nz_doc # NotRun =>
        LET doc == Val(nz_doc)
            canon == CanonKeys(json_data)
        IN /\ \A i \in 1..Len(EXPECTED_KEYS) : HasKey(doc, EXPECTED_KEYS[i])
           /\ RepliedIndex(canon, K_main_subject) = {}
                => DictGet(doc, K_main_subject) = JStr(<<>>)
           /\ \A key \in SectionKeys :
                LET v == DictGet(doc, key)
                IN /\ v.t = "list"
                   /\ IF RepliedIndex(canon, key) = {} THEN v = JList(<<>>)
                      ELSE LET r == Replied(json_data, canon, key)
                           IN IF r.t = "list" THEN v = r
                              ELSE IF Truthy(r) THEN v = JList(<<r>>)
                              ELSE v = JList(<<>>)

\* C1 witness: a reply with a truthy scalar under a camelCase section key and
\* no main_subject has been normalized
C1_Witness ==
    /\ nz_doc # NotRun
    /\ json_data = <<<<K_topicBreakdown, JNum(7)>>>>
    /\ DictGet(Val(nz_doc), K_topic_breakdown) = JList(<<JNum(7)>>)
    /\ DictGet(Val(nz_doc), K_main_subject) = JStr(<<>>)

\* C9: the backfill loop is idempotent: run on its own output it returns the
\* same object, no key changing value or shape.
C9_BackfillIdempotent ==
    nz_again # NotRun => Val(nz_again) = Val(nz_doc)

\* C9 witness: the backfill has run a second time on a document in which a
\* truthy scalar had been wrapped into a singleton list
C9_Witness ==
    /\ nz_again # NotRun
    /\ ~HasKey(json_data, K_topic_breakdown)
    /\ HasKey(json_data, K_topicBreakdown)
    /\ DictGet(json_data, K_topicBreakdown) = JStr(<<"s">>)
    /\ DictGet(Val(nz_again), K_topic_breakdown) = JList(<<JStr(<<"s">>)>>)

(***************************************************************************)
(* The analysis request                                                    *)
(***************************************************************************)
\* C4: within one request the model is invoked at most once, whatever the
\* outcome; with no credential the request ends with the missing-credential
\* error and neither the model configuration nor a model call has happened.
C4_AtMostOneModelCall ==
    /\ an_calls <= 1
    /\ an_pc = "done" /\ an_response.kind # "none" => an_calls = 1
    /\ ~Truthy(an_args.api_key) =>
         /\ an_calls = 0
         /\ ~an_configured
         /\ an_pc \in {"start", "done"}
         /\ an_pc = "done" => Val(an_result).err = Ret("API Key Missing")

\* C4 witness: a request whose single model call gave an empty reply is over
C4_Witness ==
    /\ an_pc = "done"
    /\ an_calls = 1
    /\ an_response = [kind |-> "text", text |-> Ret(<<>>)]
    /\ Val(an_result).err = Ret("Empty API response")

\* a reply of prose only: no brace anywhere
ProseOnly(t) ==
    t # <<>> /\ \A i \in 1..Len(t) : t[i] \in {T_PROSE, T_WS, T_JSON}

\* C5: every finished request returned a tuple (nothing is raised) that holds
\* the full constructed prompt; it holds a document exactly when the error is
\* None, and an error message is never empty. Missing credential, transport
\* exception, empty reply and a reply without a decodable object each give
\* no document; a prose-only reply gives the parse error.
C5_FailuresAreReturned ==
    an_pc = "done" =>
        LET r == Val(an_result)
        IN /\ r.kind = "return"
           /\ r.prompt = build_prompt(an_args)
           /\ (r.doc = None) <=> (r.err # None)
           /\ r.err # None => Val(r.err) # ""
           /\ ~Truthy(an_args.api_key) => r.doc = None
           /\ an_response.kind \in {"raise", "text_raises"} => r.doc = None
           /\ an_response.kind = "text" =>
                LET t == an_response.text
                IN /\ (t = None \/ Val(t) = <<>>)
                        => r.doc = None /\ r.err = Ret("Empty API response")
                   /\ (t # None /\ ProseOnly(Val(t)))
                        => r.doc = None /\ r.err = Ret("No valid JSON found in response")
                   /\ (t # None /\ Val(t) # <<>>
                         /\ extract_clean_json(Val(t)) = NotRun)
                        => r.doc = None /\ r.err = Ret("No valid JSON found in response")

\* C5 witness: a prose-only reply has been answered with the parse error
C5_Witness ==
    /\ an_pc = "done"
    /\ an_response = [kind |-> "text", text |-> Ret(<<T_PROSE, T_WS, T_PROSE>>)]
    /\ Val(an_result).doc = None
    /\ Val(an_result).err = Ret("No valid JSON found in response")

(***************************************************************************)
(* The render preprocessor                                                 *)
(***************************************************************************)
\* what one call on a fresh copy of the input document gives
FreshCall(video_id, is_easy_read) ==
    With(Load(<<>>, r_input), LAMBDA g :
    With(process_data_for_template(g.h, g.v, video_id, is_easy_read), LAMBDA r :
         [exc |-> r.exc, doc |-> Deep(r.h, r.v)]))

\* C2: after any sequence of calls the input document, its lists, items and
\* nested details are what they were before the first call, and every call
\* gave what the same call gives on a fresh copy of the document.
C2_InputNeverMutated ==
    /\ Deep(r_heap, r_data) = r_input
    /\ \A n \in 1..Len(r_log) :
         LET fresh == FreshCall(r_log[n].video_id, r_log[n].is_easy_read)
         IN /\ r_log[n].exc = fresh.exc
            /\ r_log[n].exc = "none" => Deep(r_heap, r_log[n].v) = fresh.doc

WitnessTopic ==
    JObj(<<<<K_time, JNum(7)>>, <<K_text, JStr(<<"T", T_HL, "m", T_HLEND, "k">>)>>,
           <<K_details, JList(<<JObj(<<<<K_time, JNum(7)>>,
                                        <<K_text, JStr(<<"T", T_HL, "m", T_HLEND, "k">>)>>>>)>>)>>>>)

\* C2 witness: a document with a marked span in a topic and in its details
\* has been prepared in easy-read mode and then again without it
C2_Witness ==
    /\ Len(r_log) = 2
    /\ r_input.m[2][2] = JList(<<WitnessTopic>>)
    /\ r_log[1].is_easy_read /\ r_log[1].exc = "none"
    /\ ~r_log[2].is_easy_read /\ r_log[2].exc = "none"
    /\ r_log[2].video_id = JStr(<<"v","i","d">>)
    /\ Deep(r_heap, r_log[2].v).m[2][2].e[1].m[2][2] = JStr(<<"T", "m", "k">>)

\* the items of the list-valued sections of document in, each with the item
\* at the same place of the prepared document out
SectionItemPairs(in, out) ==
    UNION {{<<in.m[j][2].e[i], out.m[j][2].e[i]>> : i \in 1..Len(in.m[j][2].e)} :
             j \in {x \in 1..Len(in.m) : in.m[x][2].t = "list"}}

\* the items of topic_breakdown, each with its prepared item
TopicItemPairs(in, out) ==
    UNION {{<<in.m[j][2].e[i], out.m[j][2].e[i]>> : i \in 1..Len(in.m[j][2].e)} :
             j \in {x \in 1..Len(in.m) : in.m[x][1] = K_topic_breakdown
                                         /\ in.m[x][2].t = "list"}}

\* the items of the details list of one topic_breakdown object, each with
\* its prepared item
DetailPairsOf(p) ==
    UNION {{<<p[1].m[d][2].e[x], p[2].m[d][2].e[x]>> : x \in 1..Len(p[1].m[d][2].e)} :
             d \in {y \in 1..Len(p[1].m) : /\ p[1].m[y][1] = K_details
                                           /\ p[1].m[y][2].t = "list"}}

DetailItemPairs(in, out) ==
    UNION {DetailPairsOf(p) : p \in {q \in TopicItemPairs(in, out) : q[1].t = "dict"}}

\* every object item the preprocessor is to transform, with its prepared item
ObjectItemPairs(in, out) ==
    {p \in SectionItemPairs(in, out) \cup DetailItemPairs(in, out) : p[1].t = "dict"}

\* the prepared documents of the calls that returned, each with its call
PreparedDocs ==
    {[call |-> r_log[n], doc |-> Deep(r_heap, r_log[n].v)] :
        n \in {x \in 1..Len(r_log) : r_log[x].exc = "none"}}

\* C3: with a video reference, an object item whose time is exactly zero gets
\* a link to the unqualified video reference (no offset), and an item whose
\* time is a non-zero number gets a link offset by that many seconds.
C3_ZeroTimeLinksToStart ==
    \A c \in PreparedDocs :
        base_url(c.call.video_id) # None =>
            \A p \in ObjectItemPairs(r_input, c.doc) :
                (HasKey(p[1].m, K_time) /\ DictGet(p[1].m, K_time).t = "num") =>
                    LET t == DictGet(p[1].m, K_time).n
                        url == Val(base_url(c.call.video_id))
                        html == DictGet(p[2].m, K_timestamp_html).s
                    IN IF t = 0
                       THEN /\ html # <<>>
                            /\ Contains(html, <<A_OPEN>> \o url)
                            /\ ~Contains(html, <<U_T>>)
                       ELSE html = <<A_OPEN>> \o url \o <<U_T>> \o Decimal(t)
                                   \o <<U_S, A_CLASS>> \o format_timestamp(t)
                                   \o <<A_CLOSE>>

RECURSIVE RewriteSpansFrom(_, _, _)
\* every span <hl>x</hl> of s, whatever x holds, rewritten: wrapped in the
\* bold/highlight markup in easy-read mode, replaced by x otherwise
RewriteSpansFrom(s, i, is_easy_read) ==
    IF i > Len(s) THEN <<>>
    ELSE IF s[i] = T_HL /\ NextHlEnd(s, i) # 0
         THEN (IF is_easy_read
               THEN <<H_OPEN>> \o SubSeq(s, i + 1, NextHlEnd(s, i) - 1) \o <<H_CLOSE>>
               ELSE SubSeq(s, i + 1, NextHlEnd(s, i) - 1))
              \o RewriteSpansFrom(s, NextHlEnd(s, i) + 1, is_easy_read)
         ELSE <<s[i]>> \o RewriteSpansFrom(s, i + 1, is_easy_read)

\* C10: in every string field of every object item of a list-valued section
\* (and of a topic's details list) each span <hl>x</hl> is rewritten, to
\* markup around x in easy-read mode and to x otherwise, so that no tag of a
\* complete span is left.
C10_MarkedSpansRewritten ==
    \A c \in PreparedDocs :
        \A p \in ObjectItemPairs(r_input, c.doc) :
            \A i \in 1..Len(p[1].m) :
                p[1].m[i][2].t = "str" =>
                    p[2].m[i][2] =
                        JStr(RewriteSpansFrom(p[1].m[i][2].s, 1, c.call.is_easy_read))

\* C6: for every raw text of length > 0, segment returns a non-empty
\* sequence of chunks, and never more than 50 of them.
C6_SegmentCountBounded ==
    (seg_out # NotRun /\ Len(seg_text) > 0) =>
        /\ Len(Val(seg_out)) >= 1
        /\ Len(Val(seg_out)) <= 50

(***************************************************************************)
(* The normalized document in the render preprocessor                      *)
(***************************************************************************)
\* C11: process_data_for_template completes and returns a document for every
\* document the normalizer produced, whatever the items of its section lists
\* are (strings, numbers, objects, a scalar wrapped into a singleton list
\* under topic_breakdown); it never raises.
C11_NormalizedAlwaysRenders ==
    (nz_doc # NotRun /\ r_input = JObj(Val(nz_doc))) =>
        \A n \in 1..Len(r_log) : r_log[n].exc = "none"

(***************************************************************************)
(* Keys of the reply outside the schema                                    *)
(***************************************************************************)
RecognizedKeys == {EXPECTED_KEYS[i] : i \in 1..Len(EXPECTED_KEYS)}

\* C12: for every key k of the reply that does not canonicalize to a
\* recognized key, the returned document maps the canonical form of k to the
\* value the reply gave for k; no such entry is dropped or replaced.
C12_UnrecognizedPassedThrough ==
    nz_doc # NotRun =>
        LET doc == Val(nz_doc)
            canon == CanonKeys(json_data)
        IN \A i \in 1..Len(json_data) :
              canon[i] \notin RecognizedKeys =>
                  /\ HasKey(doc, canon[i])
                  /\ DictGet(doc, canon[i]) = json_data[i][2]

(***************************************************************************)
(* The mode flags in the prompt                                            *)
(***************************************************************************)
\* the places of the prompt that hold the piece x
PlacesOf(prompt, x) == {i \in 1..Len(prompt) : prompt[i] = x}

\* C13: for all eight combinations of (maths, chemistry, easy-read) the base
\* line carries the prefer-LaTeX instruction iff maths or chemistry is on and
\* the plain-text-only instruction otherwise, exactly one of the two; the
\* maths instruction is present iff maths is on; the chemistry instruction
\* iff chemistry is on; the highlighting instruction iff easy-read is on and
\* the no-special-tags instruction otherwise; and the prompt is the same
\* string whenever it is built from the same arguments.
C13_PromptToggles ==
    an_prompt # None =>
        LET p == Val(an_prompt)
            latex == an_args.is_maths_on \/ an_args.is_chemistry_on
            n(x) == Cardinality(PlacesOf(p, x))
        IN /\ PlacesOf(p, P_BASE) = {2}
           /\ PlacesOf(p, P_LATEX) = (IF latex THEN {3} ELSE {})
           /\ PlacesOf(p, P_PLAIN) = (IF latex THEN {} ELSE {3})
           /\ n(P_MATHS) = (IF an_args.is_maths_on THEN 1 ELSE 0)
           /\ n(P_CHEM) = (IF an_args.is_chemistry_on THEN 1 ELSE 0)
           /\ n(P_HL) = (IF an_args.is_easy_read THEN 1 ELSE 0)
           /\ n(P_NOHL) = (IF an_args.is_easy_read THEN 0 ELSE 1)
           /\ p = build_prompt(an_args)
           /\ an_result # NotRun => Val(an_result).prompt = p

\* C13 witness: a request with maths off, chemistry on and easy-read on has
\* finished; its prompt prefers LaTeX and has the chemistry and highlighting
\* instructions but not the maths one
C13_Witness ==
    /\ an_pc = "done"
    /\ ~an_args.is_maths_on /\ an_args.is_chemistry_on /\ an_args.is_easy_read
    /\ Val(an_prompt)[3] = P_LATEX
    /\ PlacesOf(Val(an_prompt), P_CHEM) # {}
    /\ PlacesOf(Val(an_prompt), P_HL) # {}
    /\ PlacesOf(Val(an_prompt), P_MATHS) = {}

====
